---- MODULE Spec2Model ----
(***************************************************************************)
(* Link extraction of find-broken-links (src/index.ts).                    *)
(*                                                                         *)
(* A text is a sequence of one-character strings.  Every regular           *)
(* expression of the source is an operator that computes the match the     *)
(* JavaScript engine finds (leftmost, greedy, with backtracking).          *)
(***************************************************************************)
EXTENDS Integers, Sequences, FiniteSets, Bags, TLC

(***************************************************************************)
(* Character classes                                                       *)
(***************************************************************************)
Lower == {"a","b","c","d","e","f","g","h","i","j","k","l","m","n","o","p","q","r","s","t","u","v","w","x","y","z"}

Upper == {"A","B","C","D","E","F","G","H","I","J","K","L","M","N","O","P","Q","R","S","T","U","V","W","X","Y","Z"}

Digit == {"0","1","2","3","4","5","6","7","8","9"}

Alpha == Lower \cup Upper

Alnum == Alpha \cup Digit

\* \s of the regular expressions, and the characters trim() removes
Whitespace == {" ", "\n", "\t"}

\* the characters "." does not match
LineTerminator == {"\n"}

(***************************************************************************)
(* String primitives (1-based positions; 0 stands for JavaScript's -1)     *)
(***************************************************************************)
Min(a, b) == IF a <= b THEN a ELSE b

StartsWithAt(s, i, p) ==
  /\ i >= 1
  /\ i + Len(p) - 1 <= Len(s)
  /\ \A k \in 1..Len(p) : s[i + k - 1] = p[k]

StartsWith(s, p) == StartsWithAt(s, 1, p)

EndsWith(s, p) == Len(p) <= Len(s) /\ StartsWithAt(s, Len(s) - Len(p) + 1, p)

\* first position >= i where p occurs in s, 0 when there is none
IndexOfFrom(s, p, i) ==
  LET J == {j \in i..Len(s) : StartsWithAt(s, j, p)}
  IN  IF J = {} THEN 0 ELSE CHOOSE j \in J : \A k \in J : j <= k

Includes(s, p) == IndexOfFrom(s, p, 1) # 0

\* first position >= i of a character of the set cs, Len(s)+1 when there is none
FirstIn(s, cs, i) ==
  LET J == {j \in i..Len(s) : s[j] \in cs}
  IN  IF J = {} THEN Len(s) + 1 ELSE CHOOSE j \in J : \A k \in J : j <= k

Count(s, c) == Cardinality({j \in 1..Len(s) : s[j] = c})

\* String.prototype.trim
Trim(s) ==
  LET J == {j \in 1..Len(s) : s[j] \notin Whitespace}
  IN  IF J = {} THEN << >>
      ELSE SubSeq(s, CHOOSE j \in J : \A k \in J : j <= k,
                     CHOOSE j \in J : \A k \in J : j >= k)

\* str.split(sep)[0] for a one-character separator
BeforeFirst(s, c) == SubSeq(s, 1, FirstIn(s, {c}, 1) - 1)

\* str.split(" ").length
SplitLength(s) == Count(s, " ") + 1

\* mutant of Dedup: each value once, at its last position
RECURSIVE DedupKeepLast(_)
DedupKeepLast(xs) ==
  IF xs = << >> THEN << >>
  ELSE LET rest == DedupKeepLast(Tail(xs))
       IN  IF \E k \in 1..Len(rest) : rest[k] = Head(xs) THEN rest
           ELSE <<Head(xs)>> \o rest

\* Array.from(new Set(xs)): each value once, at its first position
RECURSIVE Dedup(_)
Dedup(xs) ==
  IF xs = << >> THEN << >>
  ELSE LET init == Dedup(SubSeq(xs, 1, Len(xs) - 1))
           last == xs[Len(xs)]
       IN  IF \E k \in 1..Len(init) : init[k] = last THEN init
           ELSE Append(init, last)

(***************************************************************************)
(* Literals of the source                                                  *)
(***************************************************************************)
Http == <<"h","t","t","p">>

HttpScheme == <<"h","t","t","p",":","/","/">>

HttpsScheme == <<"h","t","t","p","s",":","/","/">>

\* U+0060, which a TLA+ string cannot hold, is the token "BACKTICK"
Backtick == "BACKTICK"

Fence == <<Backtick, Backtick, Backtick>>

GithubCom == <<"g","i","t","h","u","b",".","c","o","m">>

GithubComSlash == <<"g","i","t","h","u","b",".","c","o","m","/">>

BlobSlash == <<"b","l","o","b","/">>

SlashBlobSlash == <<"/","b","l","o","b","/">>

WikipediaOrg == <<"w","i","k","i","p","e","d","i","a",".","o","r","g">>

DotWikipediaOrg == <<".","w","i","k","i","p","e","d","i","a",".","o","r","g">>

SlashWikiSlash == <<"/","w","i","k","i","/">>

\* length of the match of https?:\/\/ at position i, 0 when it does not match
SchemeLen(s, i) ==
  IF StartsWithAt(s, i, HttpsScheme) THEN 8
  ELSE IF StartsWithAt(s, i, HttpScheme) THEN 7
  ELSE 0

(***************************************************************************)
(* content.replace(fence [\s\S]*? fence, "") with the g flag: every        *)
(* shortest span from a fence to the next fence is removed                 *)
(***************************************************************************)
RECURSIVE StripFrom(_, _)
StripFrom(s, i) ==
  LET open  == IndexOfFrom(s, Fence, i)
      close == IF open = 0 THEN 0 ELSE IndexOfFrom(s, Fence, open + 3)
  IN  IF close = 0 THEN SubSeq(s, i, Len(s))
      ELSE SubSeq(s, i, open - 1) \o StripFrom(s, close + 3)

contentWithoutCodeBlocks(content) == StripFrom(content, 1)

(***************************************************************************)
(* /\[([^\]]+)\]\(((?:\([^)]*\)|[^()])*(?:\([^)]*\)|[^()])+)\)/g           *)
(*                                                                         *)
(* The label runs to the first "]".  The target is a run of items, an      *)
(* item being a group "(" [^)]* ")" or one character that is no            *)
(* parenthesis; the run is greedy and is followed by ")".                  *)
(***************************************************************************)
\* mutant of ItemsEnd: a group runs to the ")" that balances its "("
RECURSIVE ItemsEndNested(_, _)
ItemsEndNested(s, p) ==
  LET n == FirstIn(s, {"(", ")"}, p)
  IN  IF n > Len(s) THEN n
      ELSE IF s[n] = ")" THEN n
      ELSE LET J == {c \in (n + 1)..Len(s) :
                       /\ s[c] = ")"
                       /\ Count(SubSeq(s, n, c), "(") = Count(SubSeq(s, n, c), ")")}
           IN  IF J = {} THEN n
               ELSE ItemsEndNested(s, (CHOOSE c \in J : \A k \in J : c <= k) + 1)

\* position after the longest run of target items that starts at p
RECURSIVE ItemsEnd(_, _)
ItemsEnd(s, p) ==
  LET n == FirstIn(s, {"(", ")"}, p)          \* the characters before n are items
  IN  IF n > Len(s) THEN n
      ELSE IF s[n] = ")" THEN n
      ELSE LET c == IndexOfFrom(s, <<")">>, n + 1)
           IN  IF c = 0 THEN n ELSE ItemsEnd(s, c + 1)

\* position of the "]" that ends the label of a link starting at i, 0 if none
LabelEnd(s, i) ==
  IF i <= Len(s) /\ s[i] = "["
  THEN LET k == IndexOfFrom(s, <<"]">>, i + 1)
       IN  IF k >= i + 2 /\ k + 1 <= Len(s) /\ s[k + 1] = "(" THEN k ELSE 0
  ELSE 0

\* position of the ")" that closes a link starting at i, 0 when none matches
markdownLinkEnd(s, i) ==
  LET k == LabelEnd(s, i)
  IN  IF k = 0 THEN 0
      ELSE LET q == ItemsEnd(s, k + 2)
           IN  IF q > k + 2 /\ q <= Len(s) /\ s[q] = ")" THEN q ELSE 0

\* the successive exec() matches from position i on
RECURSIVE markdownLinkRegex(_, _)
markdownLinkRegex(s, i) ==
  LET J == {j \in i..Len(s) : markdownLinkEnd(s, j) # 0}
  IN  IF J = {} THEN << >>
      ELSE LET j == CHOOSE j \in J : \A k \in J : j <= k
               q == markdownLinkEnd(s, j)
           IN  <<[pos   |-> j,
                  end   |-> q,
                  shape |-> 1,
                  text  |-> SubSeq(s, LabelEnd(s, j) + 2, q - 1)]>>
               \o markdownLinkRegex(s, q + 1)

(***************************************************************************)
(* /<(https?:\/\/[^>]+)>/g                                                 *)
(***************************************************************************)
angleBracketLinkEnd(s, i) ==
  IF i <= Len(s) /\ s[i] = "<" /\ SchemeLen(s, i + 1) > 0
  THEN LET b == i + 1 + SchemeLen(s, i + 1)
           g == IndexOfFrom(s, <<">">>, b)
       IN  IF g > b THEN g ELSE 0
  ELSE 0

RECURSIVE angleBracketLinkRegex(_, _)
angleBracketLinkRegex(s, i) ==
  LET J == {j \in i..Len(s) : angleBracketLinkEnd(s, j) # 0}
  IN  IF J = {} THEN << >>
      ELSE LET j == CHOOSE j \in J : \A k \in J : j <= k
               g == angleBracketLinkEnd(s, j)
           IN  <<[pos   |-> j,
                  end   |-> g,
                  shape |-> 2,
                  text  |-> SubSeq(s, j + 1, g - 1)]>>
               \o angleBracketLinkRegex(s, g + 1)

(***************************************************************************)
(* rawUrlRegex: https?:// and a run of characters that are no whitespace, *)
(* no ")" and no quote, not preceded by "[", "(", "](" or "<"              *)
(***************************************************************************)
RawStop == Whitespace \cup {")", "\"", "'"}

rawUrlEnd(s, i) ==
  IF /\ SchemeLen(s, i) > 0
     /\ (i = 1 \/ s[i - 1] \notin {"[", "("})
     /\ ~(i >= 3 /\ s[i - 2] = "]" /\ s[i - 1] = "(")
     /\ (i = 1 \/ s[i - 1] # "<")
  THEN LET b == i + SchemeLen(s, i)
           e == FirstIn(s, RawStop, b) - 1
       IN  IF e >= b THEN e ELSE 0
  ELSE 0

RECURSIVE rawUrlRegex(_, _)
rawUrlRegex(s, i) ==
  LET J == {j \in i..Len(s) : rawUrlEnd(s, j) # 0}
  IN  IF J = {} THEN << >>
      ELSE LET j == CHOOSE j \in J : \A k \in J : j <= k
               e == rawUrlEnd(s, j)
           IN  <<[pos   |-> j,
                  end   |-> e,
                  shape |-> 3,
                  text  |-> SubSeq(s, j, e)]>>
               \o rawUrlRegex(s, e + 1)

\* linkUrl.replace(/[.,;:!?)]+$/, "")
TrailingPunctuation == {".", ",", ";", ":", "!", "?", ")"}

StripTrailingPunctuation(u) ==
  LET J == {j \in 1..Len(u) : u[j] \notin TrailingPunctuation}
  IN  IF J = {} THEN << >>
      ELSE SubSeq(u, 1, CHOOSE j \in J : \A k \in J : j >= k)

(***************************************************************************)
(* isValidUrl: the pattern is anchored at the start only                   *)
(*   ^https?:\/\/([a-zA-Z0-9]([a-zA-Z0-9\-]{0,61}[a-zA-Z0-9])?\.)+[a-zA-Z]{2,} *)
(***************************************************************************)
MaxLabelLen == 63

\* s[a..b] matches [a-zA-Z0-9]([a-zA-Z0-9\-]{0,61}[a-zA-Z0-9])?
IsDomainLabel(s, a, b) ==
  /\ a <= b
  /\ b - a + 1 <= MaxLabelLen
  /\ s[a] \in Alnum
  /\ s[b] \in Alnum
  /\ \A k \in a..b : s[k] \in Alnum \cup {"-"}

\* [a-zA-Z]{2,} matches at i
TopLevelAt(s, i) == i + 1 <= Len(s) /\ s[i] \in Alpha /\ s[i + 1] \in Alpha

\* (label\.)+[a-zA-Z]{2,} matches at i
RECURSIVE DomainAt(_, _)
DomainAt(s, i) ==
  \E b \in i..Min(Len(s) - 1, i + MaxLabelLen - 1) :
    /\ IsDomainLabel(s, i, b)
    /\ s[b + 1] = "."
    /\ (TopLevelAt(s, b + 2) \/ DomainAt(s, b + 2))

\* mutant of isValidUrl: the scheme and any character after it
isValidUrlSchemeOnly(url) == SchemeLen(url, 1) > 0 /\ Len(url) > SchemeLen(url, 1)

isValidUrl(url) == SchemeLen(url, 1) > 0 /\ DomainAt(url, 1 + SchemeLen(url, 1))

(***************************************************************************)
(* fixParenthesesInUrl                                                     *)
(***************************************************************************)
\* end of the match of \d+ at i, i - 1 when no digit stands at i
DigitsEnd(s, i) ==
  LET J == {j \in i..Len(s) : s[j] \notin Digit}
  IN  IF i > Len(s) THEN i - 1
      ELSE IF J = {} THEN Len(s)
      ELSE (CHOOSE j \in J : \A k \in J : j <= k) - 1

\* end of the match of (?:#L\d+(?:-L\d+)?)? at i, i - 1 when it matches nothing
LineFragmentEnd(s, i) ==
  IF StartsWithAt(s, i, <<"#", "L">>) /\ DigitsEnd(s, i + 2) >= i + 2
  THEN LET d == DigitsEnd(s, i + 2)
       IN  IF StartsWithAt(s, d + 1, <<"-", "L">>) /\ DigitsEnd(s, d + 3) >= d + 3
           THEN DigitsEnd(s, d + 3)
           ELSE d
  ELSE i - 1

\* end of group 1 of
\*   ^(https?:\/\/github\.com\/[^/]+\/[^/]+\/blob\/[^/]+\/[^#)]+)(?:#L\d+(?:-L\d+)?)?(.*)?$
\* 0 when the pattern does not match url
githubPathEnd(url) ==
  LET sl == SchemeLen(url, 1)
      u0 == sl + 1 + Len(GithubComSlash)              \* start of the user segment
      s1 == IndexOfFrom(url, <<"/">>, u0)             \* "/" after the user
      s2 == IndexOfFrom(url, <<"/">>, s1 + 1)         \* "/" after the repository
      r0 == s2 + 1 + Len(BlobSlash)                   \* start of the ref segment
      s3 == IndexOfFrom(url, <<"/">>, r0)             \* "/" after the ref
      pe == FirstIn(url, {"#", ")"}, s3 + 1) - 1      \* end of the run [^#)]+
  IN  IF /\ sl > 0
         /\ StartsWithAt(url, sl + 1, GithubComSlash)
         /\ s1 > u0
         /\ s2 > s1 + 1
         /\ StartsWithAt(url, s2 + 1, BlobSlash)
         /\ s3 > r0
         /\ pe >= s3 + 1
         /\ \A k \in (LineFragmentEnd(url, pe + 1) + 1)..Len(url) :
               url[k] \notin LineTerminator
      THEN pe
      ELSE 0

\* ^(https?:\/\/[^/]+\.wikipedia\.org\/wiki\/[^)]+)$ matches url
wikiMatch(url) ==
  LET sl == SchemeLen(url, 1)
      h  == IndexOfFrom(url, <<"/">>, sl + 1)         \* "/" that ends the host
  IN  /\ sl > 0
      /\ h # 0
      /\ h - Len(DotWikipediaOrg) > sl + 1
      /\ StartsWithAt(url, h - Len(DotWikipediaOrg), DotWikipediaOrg)
      /\ StartsWithAt(url, h, SlashWikiSlash)
      /\ h + Len(SlashWikiSlash) <= Len(url)
      /\ Count(SubSeq(url, h + Len(SlashWikiSlash), Len(url)), ")") = 0

\* mutant of fixParenthesesInUrl: the GitHub pattern is not anchored at the
\* start of the URL
fixParenthesesInUrlUnanchored(url) ==
  LET g == IndexOfFrom(url, HttpsScheme \o GithubCom, 1)
      h == IF g # 0 THEN g ELSE IndexOfFrom(url, HttpScheme \o GithubCom, 1)
      t == IF h = 0 THEN << >> ELSE SubSeq(url, h, Len(url))
  IN  IF ~Includes(url, <<"(">>) /\ ~Includes(url, <<")">>) THEN url
      ELSE IF Count(url, "(") = Count(url, ")") THEN url
      ELSE IF h # 0 /\ Includes(url, SlashBlobSlash) /\ githubPathEnd(t) # 0
           THEN SubSeq(url, 1, h - 1)
                  \o SubSeq(t, 1, githubPathEnd(t))
                  \o SubSeq(t, LineFragmentEnd(t, githubPathEnd(t) + 1) + 1, Len(t))
      ELSE url

fixParenthesesInUrl(url) ==
  IF ~Includes(url, <<"(">>) /\ ~Includes(url, <<")">>) THEN url
  ELSE IF Count(url, "(") = Count(url, ")") THEN url
  ELSE IF /\ Includes(url, GithubCom)
          /\ Includes(url, SlashBlobSlash)
          /\ githubPathEnd(url) # 0
       THEN \* githubMatch[1] + (githubMatch[2] || "")
            SubSeq(url, 1, githubPathEnd(url))
              \o SubSeq(url, LineFragmentEnd(url, githubPathEnd(url) + 1) + 1, Len(url))
  ELSE IF Includes(url, WikipediaOrg) /\ wikiMatch(url) THEN url   \* wikiMatch[1]
  ELSE url

(***************************************************************************)
(* isLikelyAFilePath                                                       *)
(***************************************************************************)
commonFileExtensions ==
  { <<".","m","d">>,
    <<".","m","a","r","k","d","o","w","n">>,
    <<".","t","x","t">>,
    <<".","j","s">>,
    <<".","t","s">>,
    <<".","j","s","x">>,
    <<".","t","s","x">>,
    <<".","h","t","m","l">>,
    <<".","c","s","s">>,
    <<".","j","s","o","n">>,
    <<".","y","m","l">>,
    <<".","y","a","m","l">>,
    <<".","p","n","g">>,
    <<".","j","p","g">>,
    <<".","j","p","e","g">>,
    <<".","g","i","f">>,
    <<".","s","v","g">>,
    <<".","p","d","f">>,
    <<".","d","o","c">>,
    <<".","d","o","c","x">> }

\* str.match(/^\d+$/)
IsNumber(str) == str # << >> /\ \A k \in 1..Len(str) : str[k] \in Digit

CodeSymbols ==
  { <<"=">>, <<"-", ">">>, <<"=", ">">>, <<"{">>, <<"}">>, <<"(", ")">>, <<"[", "]">> }

\* mutant of isLikelyAFilePath: the code-snippet test comes before the tests
\* for an extension and for a path separator
isLikelyAFilePathSnippetFirst(str) ==
  IF /\ StartsWith(str, <<".", "/">>)
     /\ IndexOfFrom(str, <<"/">>, 3) = 0
     /\ IndexOfFrom(str, <<".">>, 3) = 0
  THEN FALSE
  ELSE IF /\ Includes(str, <<" ">>)
          /\ \/ Includes(str, <<",">>)
             \/ Includes(str, <<":">>)
             \/ Includes(str, <<"{">>)
             \/ Includes(str, <<"}">>)
             \/ Includes(str, <<Backtick>>)
       THEN FALSE
  ELSE IF \E ext \in commonFileExtensions : EndsWith(str, ext) THEN TRUE
  ELSE IF (Includes(str, <<"/">>) \/ Includes(str, <<"\\">>)) /\ SplitLength(str) <= 2
       THEN TRUE
  ELSE IF str \in CodeSymbols \/ IsNumber(str) THEN FALSE
  ELSE IF SplitLength(str) > 3 THEN FALSE
  ELSE TRUE

isLikelyAFilePath(str) ==
  IF /\ StartsWith(str, <<".", "/">>)
     /\ IndexOfFrom(str, <<"/">>, 3) = 0
     /\ IndexOfFrom(str, <<".">>, 3) = 0
  THEN FALSE
  ELSE IF \E ext \in commonFileExtensions : EndsWith(str, ext) THEN TRUE
  ELSE IF (Includes(str, <<"/">>) \/ Includes(str, <<"\\">>)) /\ SplitLength(str) <= 2
       THEN TRUE
  ELSE IF /\ Includes(str, <<" ">>)
          /\ \/ Includes(str, <<",">>)
             \/ Includes(str, <<":">>)
             \/ Includes(str, <<"{">>)
             \/ Includes(str, <<"}">>)
             \/ Includes(str, <<Backtick>>)
             \/ IsNumber(str)
       THEN FALSE
  ELSE IF str \in CodeSymbols \/ IsNumber(str) THEN FALSE
  ELSE IF SplitLength(str) > 3 THEN FALSE
  ELSE TRUE

(***************************************************************************)
(* extractURLs                                                             *)
(***************************************************************************)
\* const fixedUrl = fixParenthesesInUrl(linkUrl); if (fixedUrl) linkUrl = fixedUrl
Fixed(linkUrl) ==
  LET fixedUrl == fixParenthesesInUrl(linkUrl)
  IN  IF fixedUrl # << >> THEN fixedUrl ELSE linkUrl

\* the body of each of the three loops: what a match pushes onto urls
Pushed(m) ==
  LET linkUrl == IF m.shape = 3 THEN StripTrailingPunctuation(Trim(m.text))
                 ELSE Trim(m.text)
      keep    == IF m.shape = 1 THEN StartsWith(linkUrl, Http) /\ isValidUrl(linkUrl)
                 ELSE isValidUrl(linkUrl)
  IN  IF keep THEN <<[url |-> Fixed(linkUrl), pos |-> m.pos, shape |-> m.shape]>>
      ELSE << >>

RECURSIVE PushAll(_)
PushAll(ms) ==
  IF ms = << >> THEN << >> ELSE Pushed(Head(ms)) \o PushAll(Tail(ms))

\* mutant of urlsPushed: one pass over the text, the matches in text order
\* (the bare URLs are collected before the markdown links that follow them)
urlsPushedRawFirst(content) ==
  LET c == contentWithoutCodeBlocks(content)
  IN  PushAll(rawUrlRegex(c, 1))
        \o PushAll(markdownLinkRegex(c, 1))
        \o PushAll(angleBracketLinkRegex(c, 1))

\* the array urls before the duplicates are removed, each entry with the
\* position and the shape of the match that pushed it
urlsPushed(content) ==
  LET c == contentWithoutCodeBlocks(content)
  IN  PushAll(markdownLinkRegex(c, 1))
        \o PushAll(angleBracketLinkRegex(c, 1))
        \o PushAll(rawUrlRegex(c, 1))

UrlsOf(ps) == [k \in 1..Len(ps) |-> ps[k].url]

extractURLs(content) == Dedup(UrlsOf(urlsPushed(content)))

(***************************************************************************)
(* extractRelativeLinks                                                    *)
(***************************************************************************)
RECURSIVE RelativePushAll(_)
RelativePushAll(ms) ==
  IF ms = << >> THEN << >>
  ELSE LET linkUrl   == Trim(Head(ms).text)
           cleanLink == BeforeFirst(BeforeFirst(linkUrl, "#"), "?")
       IN  (IF /\ ~StartsWith(linkUrl, Http)
               /\ ~StartsWith(linkUrl, <<"/">>)
               /\ isLikelyAFilePath(cleanLink)
            THEN <<cleanLink>> ELSE << >>)
           \o RelativePushAll(Tail(ms))

extractRelativeLinks(content) == RelativePushAll(markdownLinkRegex(content, 1))

(***************************************************************************)
(* Input texts                                                             *)
(*                                                                         *)
(* Three bounded families of file contents:                                *)
(*   LinkTexts   one link: a context around open ++ lead ++ base ++ tail   *)
(*               ++ close                                                  *)
(*   ItemTexts   up to MaxItems links of the three shapes, space separated *)
(*   PieceTexts  every concatenation of up to MaxPieces syntax pieces      *)
(***************************************************************************)
MaxNest == 2

MaxItems == 2

MaxPieces == 3

U1 == HttpScheme \o <<"a",".","b","c">>

U2 == HttpsScheme \o <<"d",".","e","f","/","p">>

GH == HttpScheme \o GithubComSlash \o <<"u","/","r","/">> \o BlobSlash \o <<"m","/","f">>

WK == HttpScheme \o <<"e">> \o DotWikipediaOrg \o SlashWikiSlash \o <<"W">>

\* a parenthesised group nested d levels deep
RECURSIVE Nest(_)
Nest(d) == IF d = 0 THEN << >> ELSE <<"(", "n">> \o Nest(d - 1) \o <<")">>

\* a domain label of n characters
Label(n) == [k \in 1..n |-> "a"]

Bases ==
  { U1, U2, GH, WK,
    HttpScheme,                                  \* a scheme and nothing else
    HttpScheme \o <<"x">>,                       \* a host without a dot
    <<"m","a","i","l","t","o",":","m">>,
    <<".","/","r",".","m","d">>,
    <<".","/","n">>,
    <<"r">>,
    <<"/","r">>,
    <<"7">>,
    << >>,
    HttpScheme \o Label(MaxLabelLen) \o <<".","b","c">>,
    HttpScheme \o Label(MaxLabelLen + 1) \o <<".","b","c">> }

Tails ==
  { Nest(d) : d \in 0..MaxNest } \cup
  { <<"(","n">>,
    <<"(","n",")","/","f">>,
    <<"(","n","#","L","1">>,
    <<"#","L","1">> \o Nest(2),
    Nest(2) \o <<"/","f">>,
    <<"#","t">>,
    <<"?","q">>,
    <<".">>,
    <<"/">> \o HttpScheme \o <<"d",".","e","f">> \o Nest(1) }

Leads == { << >>, <<" ">> }

\* <<open, close>> of a link shape
Forms ==
  { << <<"[","l","]","(">>, <<")">> >>,
    << <<"[","]","(">>, <<")">> >>,
    << <<"[","l"," ">> \o U1 \o <<"]","(">>, <<")">> >>,
    << <<"<">>, <<">">> >>,
    << << >>, << >> >>,
    << <<"(">>, <<")">> >> }

\* <<before, after>> of the link
Contexts == { << << >>, << >> >>, << Fence, Fence >> }

LinkTexts ==
  { x[1][1] \o x[2][1] \o x[3] \o x[4] \o x[5] \o x[2][2] \o x[1][2] :
      x \in Contexts \X Forms \X Leads \X Bases \X Tails }

Items ==
  { <<"[","l","]","(">> \o U1 \o <<")">>,
    <<"[","l","]","(">> \o U2 \o <<")">>,
    <<"<">> \o U1 \o <<">">>,
    <<"<">> \o U2 \o <<">">>,
    U1,
    U2,
    <<"[","l","]","(","r",".","m","d",")">> }

RECURSIVE JoinWith(_, _)
JoinWith(xs, sep) ==
  IF xs = << >> THEN << >>
  ELSE IF Len(xs) = 1 THEN xs[1]
  ELSE xs[1] \o sep \o JoinWith(Tail(xs), sep)

ItemTexts ==
  UNION { { JoinWith(xs, <<" ">>) : xs \in [1..n -> Items] } : n \in 1..MaxItems }

Pieces ==
  { <<"[","l","]","(">>, <<"[","]","(">>, <<"(">>, <<")">>, <<"<">>, <<">">>, <<" ">>, U1, Fence }

RECURSIVE Concat(_)
Concat(xs) == IF xs = << >> THEN << >> ELSE Head(xs) \o Concat(Tail(xs))

PieceTexts ==
  UNION { { Concat(xs) : xs \in [1..n -> Pieces] } : n \in 0..MaxPieces }

Texts == LinkTexts \cup ItemTexts \cup PieceTexts

(***************************************************************************)
(* The program: a file's content is read, then the two extraction          *)
(* functions are applied to it (processFile; the tests call each alone).   *)
(***************************************************************************)
VARIABLES
  content,     \* the text handed to the extraction functions
  pushed,      \* extractURLs: the array urls before the duplicates are removed
  urls,        \* what extractURLs returned
  links,       \* what extractRelativeLinks returned
  urlsDone,    \* extractURLs has returned
  linksDone,   \* extractRelativeLinks has returned
  fn,          \* the function a unit test has called, "none" before the call
  arg,         \* the string it was called with
  ret,         \* the string fixParenthesesInUrl returned
  verdict,     \* the boolean isLikelyAFilePath returned
  revision,    \* the revision of the program a session runs
  calls,       \* number of extraction calls the session has made
  prevText,    \* the text of the call before the last one
  callText,    \* the text of the last call
  called,      \* the function the last call went to, "none" before the first
  result,      \* what the last call returned
  URL_REGEX_lastIndex,            \* earlier revision: URL_REGEX.lastIndex
  RELATIVE_LINK_REGEX_lastIndex,  \* earlier revision: RELATIVE_LINK_REGEX.lastIndex
  urlList,        \* processUrlsInBatches: its argument urls
  batchStart,     \* processUrlsInBatches: the loop index i (0-based)
  batchPromises,  \* processUrlsInBatches: the promises of the batch, each
                  \* pending or fulfilled with a result
  checkResults,   \* processUrlsInBatches: its array results
  checkPc,        \* processUrlsInBatches: "idle", "loop", "await" or "returned"
  outcome,        \* what checkURL did for each URL of urlList
  markdownFiles,  \* main: number of markdown files found
  allFiles,       \* main: the files not yet taken into a batch
  batch,          \* main: the files of the current batch
  mainPc,         \* main: "idle", "loop", "await", "printed" or "crashed"
  started,        \* how often processFile was called for each file
  inFlight,       \* the processFile calls that have not resolved, as a bag
  resolved,       \* number of processFile calls of the batch that resolved
  resultCount     \* main: length of its array results

extractVars == <<content, pushed, urls, links, urlsDone, linksDone>>

unitVars == <<fn, arg, ret, verdict>>

sessionVars ==
  <<revision, calls, prevText, callText, called, result,
    URL_REGEX_lastIndex, RELATIVE_LINK_REGEX_lastIndex>>

batchVars == <<urlList, batchStart, batchPromises, checkResults, checkPc, outcome>>

mainVars == <<markdownFiles, allFiles, batch, mainPc, started, inFlight, resolved, resultCount>>

vars == <<extractVars, unitVars, sessionVars, batchVars, mainVars>>

\* processUrlsInBatches is not running
BatchIdle ==
  /\ urlList = << >>
  /\ batchStart = 0
  /\ batchPromises = << >>
  /\ checkResults = << >>
  /\ checkPc = "idle"
  /\ outcome = << >>

\* main is not running
MainIdle ==
  /\ markdownFiles = 0
  /\ allFiles = << >>
  /\ batch = << >>
  /\ mainPc = "idle"
  /\ started = << >>
  /\ inFlight = EmptyBag
  /\ resolved = 0
  /\ resultCount = 0

\* no session is running
SessionIdle ==
  /\ revision = "current"
  /\ calls = 0
  /\ prevText = << >>
  /\ callText = << >>
  /\ called = "none"
  /\ result = << >>
  /\ URL_REGEX_lastIndex = 0
  /\ RELATIVE_LINK_REGEX_lastIndex = 0

\* no unit test is running
UnitIdle == fn = "none" /\ arg = << >> /\ ret = << >> /\ verdict = FALSE

\* no file is being processed
ExtractIdle ==
  /\ content = << >>
  /\ pushed = << >>
  /\ urls = << >>
  /\ links = << >>
  /\ urlsDone = FALSE
  /\ linksDone = FALSE

Init ==
  /\ content \in Texts
  /\ pushed = << >>
  /\ urls = << >>
  /\ links = << >>
  /\ urlsDone = FALSE
  /\ linksDone = FALSE
  /\ UnitIdle
  /\ SessionIdle
  /\ BatchIdle
  /\ MainIdle

CallExtractURLs ==
  /\ ~urlsDone
  /\ pushed' = urlsPushed(content)
  /\ urls' = Dedup(UrlsOf(pushed'))
  /\ urlsDone' = TRUE
  /\ UNCHANGED <<content, links, linksDone>>
  /\ UNCHANGED <<unitVars, sessionVars, batchVars, mainVars>>

CallExtractRelativeLinks ==
  /\ ~linksDone
  /\ links' = extractRelativeLinks(content)
  /\ linksDone' = TRUE
  /\ UNCHANGED <<content, pushed, urls, urlsDone>>
  /\ UNCHANGED <<unitVars, sessionVars, batchVars, mainVars>>

Next == CallExtractURLs \/ CallExtractRelativeLinks

Spec == Init /\ [][Next]_vars

(***************************************************************************)
(* The unit tests of src/test-link-regex.test.ts call fixParenthesesInUrl  *)
(* and isLikelyAFilePath on a string of their own.                         *)
(*   FixArgs    a URL followed by up to MaxFixPieces pieces                *)
(*   PathArgs   every concatenation of up to MaxPathPieces pieces, and     *)
(*              strings with runs of spaces                                *)
(***************************************************************************)
MaxFixPieces == 3

MaxPathPieces == 4

FixBases ==
  { U1, GH, WK,
    U1 \o <<"/">> \o GH,                           \* an archived copy of GH
    HttpScheme \o WikipediaOrg \o <<"/","W">> }

FixPieces ==
  { <<"(">>, <<")">>, <<"n">>, <<"/","f">>, <<"#","L","1">>, <<"#","L","1","-","L","2">> }

FixArgs ==
  { b \o Concat(xs) :
      b \in FixBases, xs \in UNION { [1..n -> FixPieces] : n \in 0..MaxFixPieces } }

PathPieces ==
  { <<".", "/">>, <<"n">>, <<".", "m", "d">>, <<"/">>, <<" ">>, <<",">>, <<"7">>, <<"{">>, <<"=">> }

PathArgs ==
  { Concat(xs) : xs \in UNION { [1..n -> PathPieces] : n \in 0..MaxPathPieces } }
  \cup { <<"n", " ", " ", " ", "n">>,
         <<"n", " ", " ", "n", " ", " ", "n">>,
         <<"n", " ", "n", " ", "n", " ", "n">>,
         <<"n", "\\", "n", " ", "n">>,
         <<"-", ">">>, <<"=", ">">>, <<"}">>, <<"(", ")">>, <<"[", "]">>,
         <<Backtick, "n", " ", "n", Backtick>>,
         <<"k", ":", " ", "v">> }

UnitInit == UnitIdle /\ ExtractIdle /\ SessionIdle /\ BatchIdle /\ MainIdle

CallFixParenthesesInUrl ==
  /\ fn = "none"
  /\ \E url \in FixArgs :
       /\ arg' = url
       /\ ret' = fixParenthesesInUrl(url)
  /\ fn' = "fixParenthesesInUrl"
  /\ UNCHANGED verdict
  /\ UNCHANGED <<extractVars, sessionVars, batchVars, mainVars>>

CallIsLikelyAFilePath ==
  /\ fn = "none"
  /\ \E str \in PathArgs :
       /\ arg' = str
       /\ verdict' = isLikelyAFilePath(str)
  /\ fn' = "isLikelyAFilePath"
  /\ UNCHANGED ret
  /\ UNCHANGED <<extractVars, sessionVars, batchVars, mainVars>>

UnitNext == CallFixParenthesesInUrl \/ CallIsLikelyAFilePath

UnitSpec == UnitInit /\ [][UnitNext]_vars


(***************************************************************************)
(* The earlier revision (src/unnamed/part_000): URL_REGEX and              *)
(* RELATIVE_LINK_REGEX are module-level regular expressions with the g     *)
(* flag, so their lastIndex outlives a call.                               *)
(*   URL_REGEX            /\[.*?\]\((https?:\/\/[^\s)]+)\)/g               *)
(*   RELATIVE_LINK_REGEX  /\[.*?\]\((?!https?:\/\/)([^\s)]+)\)/g           *)
(***************************************************************************)
\* end of group 1 when the part after "](" matches at b, 0 when it does not:
\* the run [^\s)]+ is followed by ")"; relative is the lookahead (?!https?://)
EarlierTargetEnd(s, b, relative) ==
  LET r == IF relative THEN b ELSE b + SchemeLen(s, b)
      e == FirstIn(s, Whitespace \cup {")"}, r) - 1
  IN  IF /\ relative <=> SchemeLen(s, b) = 0
         /\ e >= r
         /\ e + 1 <= Len(s)
         /\ s[e + 1] = ")"
      THEN e ELSE 0

\* the positions j of a "](" that ends the lazy run .*? of a link starting at i
EarlierLabelEnds(s, i, relative) ==
  { j \in (i + 1)..(Len(s) - 1) :
      /\ s[j] = "]" /\ s[j + 1] = "("
      /\ \A k \in (i + 1)..(j - 1) : s[k] \notin LineTerminator
      /\ EarlierTargetEnd(s, j + 2, relative) # 0 }

\* mutant of EarlierExec: a failed exec leaves lastIndex where it was
EarlierExecKeepsCursor(s, lastIndex, relative) ==
  LET I == {i \in (lastIndex + 1)..Len(s) :
              s[i] = "[" /\ EarlierLabelEnds(s, i, relative) # {}}
  IN  IF I = {} THEN [found |-> FALSE, group |-> << >>, lastIndex |-> lastIndex]
      ELSE LET i == CHOOSE i \in I : \A k \in I : i <= k
               J == EarlierLabelEnds(s, i, relative)
               j == CHOOSE j \in J : \A k \in J : j <= k
               e == EarlierTargetEnd(s, j + 2, relative)
           IN  [found |-> TRUE, group |-> SubSeq(s, j + 2, e), lastIndex |-> e + 1]

\* one regex.exec(s): the leftmost match at or after lastIndex; lastIndex
\* becomes the index after the match, or 0 when there is none
EarlierExec(s, lastIndex, relative) ==
  LET I == {i \in (lastIndex + 1)..Len(s) :
              s[i] = "[" /\ EarlierLabelEnds(s, i, relative) # {}}
  IN  IF I = {} THEN [found |-> FALSE, group |-> << >>, lastIndex |-> 0]
      ELSE LET i == CHOOSE i \in I : \A k \in I : i <= k
               J == EarlierLabelEnds(s, i, relative)
               j == CHOOSE j \in J : \A k \in J : j <= k
               e == EarlierTargetEnd(s, j + 2, relative)
           IN  [found |-> TRUE, group |-> SubSeq(s, j + 2, e), lastIndex |-> e + 1]

\* while ((match = URL_REGEX.exec(content)) !== null) urls.push(match[1])
RECURSIVE EarlierExtractURLs(_, _)
EarlierExtractURLs(text, lastIndex) ==
  LET match == EarlierExec(text, lastIndex, FALSE)
  IN  IF ~match.found THEN [out |-> << >>, lastIndex |-> match.lastIndex]
      ELSE LET rest == EarlierExtractURLs(text, match.lastIndex)
           IN  [out |-> <<match.group>> \o rest.out, lastIndex |-> rest.lastIndex]

\* the same loop over RELATIVE_LINK_REGEX; a link is pushed without its
\* fragment and query, unless that leaves nothing
RECURSIVE EarlierExtractRelativeLinks(_, _)
EarlierExtractRelativeLinks(text, lastIndex) ==
  LET match == EarlierExec(text, lastIndex, TRUE)
      link  == BeforeFirst(BeforeFirst(match.group, "#"), "?")
  IN  IF ~match.found THEN [out |-> << >>, lastIndex |-> match.lastIndex]
      ELSE LET rest == EarlierExtractRelativeLinks(text, match.lastIndex)
           IN  [out |-> (IF link # << >> THEN <<link>> ELSE << >>) \o rest.out,
                lastIndex |-> rest.lastIndex]

(***************************************************************************)
(* A session: extraction calls one after another on texts of SessionTexts, *)
(* in the current revision (src/index.ts) or the earlier one.              *)
(***************************************************************************)
MaxCalls == 3

SessionTexts ==
  { << >>,
    <<"[","l","]","(">> \o U1 \o <<")">>,
    <<"[","l","]","(">> \o U1 \o <<")"," ","[","l","]","(">> \o U2 \o <<")">>,
    <<"[","l","]","(">> \o U2 \o <<")"," ","[","l","]","(","r",".","m","d",")">>,
    <<"[","l","]","(","r",".","m","d",")">>,
    <<"[","l","]","(","r",".","m","d","#","t",")"," ","[","l","]","(","#","t",")">>,
    <<"[","l","]","(","r",".","m","d",")"," ","x"," ","[","l","]","(">> \o U1 \o <<")">>,
    <<"[","l","]","(">> \o U1 \o <<" ",")"," ","[","l","]","(","s","/","r",")">>,
    <<"<">> \o U1 \o <<">"," ">> \o U2,
    <<"[","[","l","]","(","r",")","]","(">> \o U1 \o <<"(","n",")",")">> }

SessionInit ==
  /\ revision \in {"current", "earlier"}
  /\ calls = 0
  /\ prevText = << >>
  /\ callText = << >>
  /\ called = "none"
  /\ result = << >>
  /\ URL_REGEX_lastIndex = 0
  /\ RELATIVE_LINK_REGEX_lastIndex = 0
  /\ ExtractIdle
  /\ UnitIdle
  /\ BatchIdle
  /\ MainIdle

SessionExtractURLs ==
  /\ calls < MaxCalls
  /\ \E text \in SessionTexts :
       /\ callText' = text
       /\ IF revision = "earlier"
          THEN /\ result' = EarlierExtractURLs(text, URL_REGEX_lastIndex).out
               /\ URL_REGEX_lastIndex' =
                    EarlierExtractURLs(text, URL_REGEX_lastIndex).lastIndex
          ELSE /\ result' = extractURLs(text)
               /\ UNCHANGED URL_REGEX_lastIndex
  /\ prevText' = callText
  /\ called' = "extractURLs"
  /\ calls' = calls + 1
  /\ UNCHANGED <<revision, RELATIVE_LINK_REGEX_lastIndex>>
  /\ UNCHANGED <<extractVars, unitVars, batchVars, mainVars>>

SessionExtractRelativeLinks ==
  /\ calls < MaxCalls
  /\ \E text \in SessionTexts :
       /\ callText' = text
       /\ IF revision = "earlier"
          THEN /\ result' =
                    EarlierExtractRelativeLinks(text, RELATIVE_LINK_REGEX_lastIndex).out
               /\ RELATIVE_LINK_REGEX_lastIndex' =
                    EarlierExtractRelativeLinks(text, RELATIVE_LINK_REGEX_lastIndex).lastIndex
          ELSE /\ result' = extractRelativeLinks(text)
               /\ UNCHANGED RELATIVE_LINK_REGEX_lastIndex
  /\ prevText' = callText
  /\ called' = "extractRelativeLinks"
  /\ calls' = calls + 1
  /\ UNCHANGED <<revision, URL_REGEX_lastIndex>>
  /\ UNCHANGED <<extractVars, unitVars, batchVars, mainVars>>

SessionNext == SessionExtractURLs \/ SessionExtractRelativeLinks

SessionSpec == SessionInit /\ [][SessionNext]_vars

(***************************************************************************)
(* processUrlsInBatches, with isLocalhostURL and checkURL                  *)
(***************************************************************************)
CONCURRENCY_LIMIT == 20

LINK_BATCH_SIZE == 5

Localhost == <<"l","o","c","a","l","h","o","s","t">>

Loopback == <<"1","2","7",".","0",".","0",".","1">>

\* url.match(/https?:\/\/[^\/]+:\d+/) !== null
HasPort(url) ==
  \E p \in 1..Len(url) :
    /\ SchemeLen(url, p) > 0
    /\ \E c \in (p + SchemeLen(url, p) + 1)..(Len(url) - 1) :
         /\ url[c] = ":"
         /\ url[c + 1] \in Digit
         /\ \A k \in (p + SchemeLen(url, p))..(c - 1) : url[k] # "/"

isLocalhostURL(url) ==
  Includes(url, Localhost) \/ Includes(url, Loopback) \/ HasPort(url)

SlashAssetsSlash == <<"/","a","s","s","e","t","s","/">>

Marketplace ==
  <<"m","a","r","k","e","t","p","l","a","c","e",".",
    "v","i","s","u","a","l","s","t","u","d","i","o",".","c","o","m">>

\* specialCases: /github\.com\/.*\/assets\// and /marketplace\.visualstudio\.com/
IsSpecialCase(url) ==
  \/ \E p \in 1..Len(url) :
       /\ StartsWithAt(url, p, GithubComSlash)
       /\ \E q \in (p + Len(GithubComSlash))..Len(url) :
            /\ StartsWithAt(url, q, SlashAssetsSlash)
            /\ \A k \in (p + Len(GithubComSlash))..(q - 1) : url[k] \notin LineTerminator
  \/ Includes(url, Marketplace)

SlashTreeSlash == <<"/","t","r","e","e","/">>

isGitHubLink(url) ==
  Includes(url, GithubCom) /\ (Includes(url, SlashBlobSlash) \/ Includes(url, SlashTreeSlash))

\* what one fetch does: it throws (FetchThrows), or it resolves with a
\* response status
FetchThrows == 0

Fetches == {FetchThrows, 200, 403, 404}

\* what response.text() gives on a GitHub page: it throws, or the text holds
\* one of the not-found phrases ("missing") or none of them ("found")
PageTexts == {"throws", "found", "missing"}

\* the outcome of a checkURL call that resolved with a response
Response(status, flagged) ==
  [called |-> TRUE, threw |-> FALSE,
   ok |-> status \in 200..299, status |-> status, brokenGitHubLink |-> flagged]

\* the outcome of a checkURL call that threw
Thrown ==
  [called |-> TRUE, threw |-> TRUE, ok |-> FALSE, status |-> 0, brokenGitHubLink |-> FALSE]

\* checkURL was not called
NotCalled ==
  [called |-> FALSE, threw |-> FALSE, ok |-> FALSE, status |-> 0, brokenGitHubLink |-> FALSE]

\* checkURL(url): first is the first fetch (GET for a GitHub link, HEAD
\* otherwise), second the GET that retries, text the page text that is read
\* from an ok GitHub response.  The value is Thrown or the response.
checkURL(url, first, second, text) ==
  IF IsSpecialCase(url) THEN Response(200, FALSE)
  ELSE IF isGitHubLink(url)
       THEN IF first # FetchThrows /\ ~(Response(first, FALSE).ok /\ text = "throws")
            THEN IF Response(first, FALSE).ok THEN Response(first, text = "missing")
                 ELSE Response(first, FALSE)
            ELSE IF second = FetchThrows THEN Thrown ELSE Response(second, FALSE)
  ELSE IF first # FetchThrows
       THEN IF first = 403 /\ second # FetchThrows THEN Response(second, FALSE)
            ELSE Response(first, FALSE)
  ELSE IF second = FetchThrows THEN Thrown ELSE Response(second, FALSE)

\* mutant of isBroken: the GitHub not-found flag is ignored
isBrokenIgnoresFlag(res) == ~res.ok

\* const isBroken = !result.ok || result.brokenGitHubLink
isBroken(res) == ~res.ok \/ res.brokenGitHubLink

\* the result a localhost URL gets without any check
Skipped(url) ==
  [link |-> url, status |-> "ok", statusCode |-> 0, error |-> "Skipped localhost URL"]

\* statusCode of a result that has none
NoStatusCode == -1

\* a promise that is pending, and one fulfilled with a result
Pending ==
  [settled |-> FALSE,
   value |-> [link |-> << >>, status |-> "pending", statusCode |-> NoStatusCode,
              error |-> "undefined"]]

Fulfilled(value) == [settled |-> TRUE, value |-> value]

\* the try/catch of the callback: the result for url when checkURL gave out
Checked(url, out) ==
  IF out.threw
  THEN [link |-> url, status |-> "broken", statusCode |-> NoStatusCode, error |-> "thrown"]
  ELSE [link |-> url,
        status |-> IF isBroken(out) THEN "broken" ELSE "ok",
        statusCode |-> out.status,
        error |-> IF out.brokenGitHubLink THEN "GitHub 404 (page shows not found)"
                  ELSE "undefined"]

\* urls.slice(i, i + LINK_BATCH_SIZE), i 0-based
Slice(xs, from, size) == SubSeq(xs, from + 1, Min(Len(xs), from + size))

(***************************************************************************)
(* One call of processUrlsInBatches on a list of UrlLists                  *)
(***************************************************************************)
MaxUrls == 6

UrlPool ==
  << U1,
     HttpScheme \o Localhost \o <<"/","x">>,
     GH,
     U2,
     U1 \o <<":","8","/","p">>,
     HttpScheme \o GithubComSlash \o <<"u">> \o SlashAssetsSlash \o <<"i">>,
     WK,
     HttpScheme \o Loopback >>

PoolUrl(k) == UrlPool[((k - 1) % Len(UrlPool)) + 1]

UrlLists == { [k \in 1..n |-> PoolUrl(k + o)] : n \in 0..MaxUrls, o \in {0, 2} }

BatchInit ==
  /\ urlList \in UrlLists
  /\ batchStart = 0
  /\ batchPromises = << >>
  /\ checkResults = << >>
  /\ checkPc = "loop"
  /\ outcome = [k \in 1..Len(urlList) |-> NotCalled]
  /\ ExtractIdle
  /\ UnitIdle
  /\ SessionIdle
  /\ MainIdle

\* batch.map(async (url) => ...): every callback runs to its first await; the
\* one of a localhost URL returns at once
StartUrlBatch ==
  /\ checkPc = "loop"
  /\ batchStart < Len(urlList)
  /\ batchPromises' =
       [k \in 1..Len(Slice(urlList, batchStart, LINK_BATCH_SIZE)) |->
          IF isLocalhostURL(urlList[batchStart + k])
          THEN Fulfilled(Skipped(urlList[batchStart + k]))
          ELSE Pending]
  /\ checkPc' = "await"
  /\ UNCHANGED <<urlList, batchStart, checkResults, outcome>>
  /\ UNCHANGED <<extractVars, unitVars, sessionVars, mainVars>>

\* checkURL of one pending callback settles, and the callback returns
SettleCheck ==
  /\ checkPc = "await"
  /\ \E k \in 1..Len(batchPromises) :
       /\ ~batchPromises[k].settled
       /\ \E first \in Fetches, second \in Fetches, text \in PageTexts :
            LET url == urlList[batchStart + k]
                out == checkURL(url, first, second, text)
            IN  /\ outcome' = [outcome EXCEPT ![batchStart + k] = out]
                /\ batchPromises' =
                     [batchPromises EXCEPT ![k] = Fulfilled(Checked(url, out))]
  /\ UNCHANGED <<urlList, batchStart, checkResults, checkPc>>
  /\ UNCHANGED <<extractVars, unitVars, sessionVars, mainVars>>

\* await Promise.all(batchPromises) returns; results.push(...batchResults)
BatchSettled ==
  /\ checkPc = "await"
  /\ \A k \in 1..Len(batchPromises) : batchPromises[k].settled
  /\ checkResults' =
       checkResults \o [k \in 1..Len(batchPromises) |-> batchPromises[k].value]
  /\ batchStart' = batchStart + LINK_BATCH_SIZE
  /\ batchPromises' = << >>
  /\ checkPc' = "loop"
  /\ UNCHANGED <<urlList, outcome>>
  /\ UNCHANGED <<extractVars, unitVars, sessionVars, mainVars>>

ReturnResults ==
  /\ checkPc = "loop"
  /\ batchStart >= Len(urlList)
  /\ checkPc' = "returned"
  /\ UNCHANGED <<urlList, batchStart, batchPromises, checkResults, outcome>>
  /\ UNCHANGED <<extractVars, unitVars, sessionVars, mainVars>>

BatchNext == StartUrlBatch \/ SettleCheck \/ BatchSettled \/ ReturnResults

BatchSpec == BatchInit /\ [][BatchNext]_vars

(***************************************************************************)
(* main: the files are processed in batches of CONCURRENCY_LIMIT, the URLs *)
(* of a file checked in batches of LINK_BATCH_SIZE.  The processFile calls *)
(* that have not resolved are kept as a bag: calls that stand at the same  *)
(* point are counted, not told apart.                                      *)
(***************************************************************************)
MaxFiles == 22

FileCounts == {0, 1, 2} \cup (CONCURRENCY_LIMIT..MaxFiles)

\* number of URLs extractURLs finds in file f (its relative links are left out)
UrlCount(f) ==
  IF f % 10 = 1 THEN LINK_BATCH_SIZE + 1
  ELSE IF f % 10 = 2 THEN 1
  ELSE 0

\* a processFile call that awaits Bun.file(filePath).text()
Reading(n) == [stage |-> "reading", urls |-> n, from |-> 0, pending |-> 0]

\* a processFile call inside processUrlsInBatches: the batch that starts at
\* index from is awaited, pending of its checks have not settled
Checking(n, from, pending) ==
  [stage |-> "checking", urls |-> n, from |-> from, pending |-> pending]

One(r) == SetToBag({r})

RECURSIVE BagOfReading(_)
BagOfReading(files) ==
  IF files = << >> THEN EmptyBag
  ELSE One(Reading(UrlCount(Head(files)))) (+) BagOfReading(Tail(files))

RECURSIVE SumUrlCount(_)
SumUrlCount(files) ==
  IF files = << >> THEN 0 ELSE UrlCount(Head(files)) + SumUrlCount(Tail(files))

\* mutant of PromiseAll: the promise settles with its first member (Promise.race)
PromiseRace(members, fulfilled) == fulfilled >= 1 \/ members = 0

\* await Promise.all(...) returns once every member is fulfilled
PromiseAll(members, fulfilled) == fulfilled = members

MainInit ==
  /\ markdownFiles \in FileCounts
  /\ allFiles = [f \in 1..markdownFiles |-> f]
  /\ batch = << >>
  /\ mainPc = "loop"
  /\ started = [f \in 1..markdownFiles |-> 0]
  /\ inFlight = EmptyBag
  /\ resolved = 0
  /\ resultCount = 0
  /\ ExtractIdle
  /\ UnitIdle
  /\ SessionIdle
  /\ BatchIdle

\* allFiles.splice(0, CONCURRENCY_LIMIT); batch.map(processFile): every call
\* runs to its first await, the read of the file
StartFileBatch ==
  /\ mainPc = "loop"
  /\ allFiles # << >>
  /\ batch' = SubSeq(allFiles, 1, Min(Len(allFiles), CONCURRENCY_LIMIT))
  /\ allFiles' = SubSeq(allFiles, Len(batch') + 1, Len(allFiles))
  /\ started' = [f \in 1..markdownFiles |->
                   IF \E k \in 1..Len(batch') : batch'[k] = f
                   THEN started[f] + 1 ELSE started[f]]
  /\ inFlight' = inFlight (+) BagOfReading(batch')
  /\ resolved' = 0
  /\ mainPc' = "await"
  /\ UNCHANGED <<markdownFiles, resultCount>>
  /\ UNCHANGED <<extractVars, unitVars, sessionVars, batchVars>>

\* the text of a file arrives: the links are extracted and the first batch of
\* URL checks starts; without URLs processFile returns
ReadDone ==
  /\ mainPc \in {"loop", "await"}
  /\ \E r \in BagToSet(inFlight) :
       /\ r.stage = "reading"
       /\ IF r.urls = 0
          THEN /\ inFlight' = inFlight (-) One(r)
               /\ resolved' = resolved + 1
          ELSE /\ inFlight' = (inFlight (-) One(r))
                                (+) One(Checking(r.urls, 0, Min(r.urls, LINK_BATCH_SIZE)))
               /\ UNCHANGED resolved
  /\ UNCHANGED <<markdownFiles, allFiles, batch, mainPc, started, resultCount>>
  /\ UNCHANGED <<extractVars, unitVars, sessionVars, batchVars>>

\* the read of a file fails: processFile rejects, so does Promise.all, and
\* the top-level await throws
ReadFails ==
  /\ mainPc = "await"
  /\ \E r \in BagToSet(inFlight) : r.stage = "reading"
  /\ mainPc' = "crashed"
  /\ UNCHANGED <<markdownFiles, allFiles, batch, started, inFlight, resolved, resultCount>>
  /\ UNCHANGED <<extractVars, unitVars, sessionVars, batchVars>>

\* one URL check of a file settles; with the last of its batch the next
\* batch starts, or processUrlsInBatches and processFile return
CheckSettles ==
  /\ mainPc \in {"loop", "await"}
  /\ \E r \in BagToSet(inFlight) :
       /\ r.stage = "checking"
       /\ r.pending > 0
       /\ IF r.pending > 1
          THEN /\ inFlight' = (inFlight (-) One(r))
                                (+) One(Checking(r.urls, r.from, r.pending - 1))
               /\ UNCHANGED resolved
          ELSE IF r.from + LINK_BATCH_SIZE < r.urls
          THEN /\ inFlight' =
                    (inFlight (-) One(r))
                      (+) One(Checking(r.urls, r.from + LINK_BATCH_SIZE,
                                       Min(r.urls - r.from - LINK_BATCH_SIZE,
                                           LINK_BATCH_SIZE)))
               /\ UNCHANGED resolved
          ELSE /\ inFlight' = inFlight (-) One(r)
               /\ resolved' = resolved + 1
  /\ UNCHANGED <<markdownFiles, allFiles, batch, mainPc, started, resultCount>>
  /\ UNCHANGED <<extractVars, unitVars, sessionVars, batchVars>>

\* await Promise.all(batch.map(...)) returns; results.push(...batchResults.flat())
FileBatchSettled ==
  /\ mainPc = "await"
  /\ PromiseAll(Len(batch), resolved)
  /\ resultCount' = resultCount + SumUrlCount(batch)
  /\ mainPc' = "loop"
  /\ UNCHANGED <<markdownFiles, allFiles, batch, started, inFlight, resolved>>
  /\ UNCHANGED <<extractVars, unitVars, sessionVars, batchVars>>

\* printResults(results)
PrintResults ==
  /\ mainPc = "loop"
  /\ allFiles = << >>
  /\ mainPc' = "printed"
  /\ UNCHANGED <<markdownFiles, allFiles, batch, started, inFlight, resolved, resultCount>>
  /\ UNCHANGED <<extractVars, unitVars, sessionVars, batchVars>>

MainNext ==
  \/ StartFileBatch
  \/ ReadDone
  \/ ReadFails
  \/ CheckSettles
  \/ FileBatchSettled
  \/ PrintResults

MainSpec == MainInit /\ [][MainNext]_vars

(***************************************************************************)
(* Claims                                                                  *)
(***************************************************************************)
\* x begins with a URL scheme: a letter, then letters, digits, "+", "-" or ".", then ":"
BeginsWithScheme(x) ==
  \E k \in 2..Len(x) :
    /\ x[k] = ":"
    /\ x[1] \in Alpha
    /\ \A j \in 2..(k - 1) : x[j] \in Alnum \cup {"+", "-", "."}

\* the text is open ++ T ++ ")" for a target T free of link syntax and whitespace
PlainTarget(T) ==
  \A k \in 1..Len(T) :
    T[k] \notin {"(", ")", "[", "]", "<", ">", Backtick} \cup Whitespace

MailtoLink == <<"[","l","]","(","m","a","i","l","t","o",":","m",")">>

\* C1: no string returned by extractRelativeLinks begins with a URL scheme
\* (mailto:, ftp://, http://) or with "/", and the link [l](mailto:m) is
\* emitted by neither extractURLs nor extractRelativeLinks.
C1_RelativeNeverSchemeOrRoot ==
  /\ linksDone =>
       \A k \in 1..Len(links) :
         ~BeginsWithScheme(links[k]) /\ ~StartsWith(links[k], <<"/">>)
  /\ content = MailtoLink =>
       (urlsDone => urls = << >>) /\ (linksDone => links = << >>)

\* C2: every string emitted by extractURLs and by extractRelativeLinks is
\* non-empty, also for a link whose target is only a #fragment or ?query.
C2_EmittedNonEmpty ==
  /\ urlsDone => \A k \in 1..Len(urls) : urls[k] # << >>
  /\ linksDone => \A k \in 1..Len(links) : links[k] # << >>

\* the whole text is one fenced code block
FencedOnly(text) ==
  /\ Len(text) >= 2 * Len(Fence)
  /\ StartsWith(text, Fence)
  /\ EndsWith(text, Fence)
  /\ \A k \in (Len(Fence) + 1)..(Len(text) - Len(Fence)) : text[k] # Backtick

\* C3: a link that occurs only inside a fenced code block is emitted by
\* neither extractURLs nor extractRelativeLinks.
C3_FencedLinksNotEmitted ==
  FencedOnly(content) =>
    (urlsDone => urls = << >>) /\ (linksDone => links = << >>)

\* the text is the link [](T) with an empty label, T free of link syntax
EmptyLabelLink(text) ==
  /\ StartsWith(text, <<"[", "]", "(">>)
  /\ EndsWith(text, <<")">>)
  /\ Len(text) >= 5
  /\ PlainTarget(SubSeq(text, 4, Len(text) - 1))

\* C4: a link with an empty label is still matched: extractURLs emits its
\* valid http(s) target, extractRelativeLinks its relative target that the
\* path classifier accepts.
C4_EmptyLabelMatched ==
  EmptyLabelLink(content) =>
    LET T     == SubSeq(content, 4, Len(content) - 1)
        clean == BeforeFirst(BeforeFirst(T, "#"), "?")
    IN  /\ (urlsDone /\ StartsWith(T, Http) /\ isValidUrl(T)) => urls = <<T>>
        /\ (/\ linksDone
            /\ ~StartsWith(T, Http)
            /\ ~StartsWith(T, <<"/">>)
            /\ isLikelyAFilePath(clean)) => links = <<clean>>

\* number of "(" minus number of ")" among the first k characters of T
Depth(T, k) == Count(SubSeq(T, 1, k), "(") - Count(SubSeq(T, 1, k), ")")

\* the parentheses of T are balanced and never nest deeper than d
BalancedWithin(T, d) ==
  /\ \A k \in 1..Len(T) : Depth(T, k) \in 0..d
  /\ Depth(T, Len(T)) = 0

\* T is free of link syntax and whitespace, parentheses apart
UrlText(T) ==
  \A k \in 1..Len(T) : T[k] \notin {"[", "]", "<", ">", Backtick} \cup Whitespace

\* the target of the text [l](T)
TargetOf(text) == SubSeq(text, 5, Len(text) - 1)

\* the text is the link [l](T) with T a valid http(s) URL
HttpLink(text) ==
  /\ StartsWith(text, <<"[", "l", "]", "(">>)
  /\ EndsWith(text, <<")">>)
  /\ Len(text) >= 6
  /\ UrlText(TargetOf(text))
  /\ StartsWith(TargetOf(text), Http)
  /\ isValidUrl(TargetOf(text))

\* C5: for a link whose http(s) target holds only single-level balanced
\* groups, extractURLs returns the complete target, once, and nothing else
\* (the bare-URL pass adds no truncated variant).
C5_SingleLevelTargetWhole ==
  (/\ urlsDone
   /\ HttpLink(content)
   /\ BalancedWithin(TargetOf(content), 1)) => urls = <<TargetOf(content)>>

AllButLast(T) == SubSeq(T, 1, Len(T) - 1)

Range(xs) == {xs[k] : k \in 1..Len(xs)}

\* T ends with one group that is nested two levels deep
TwoLevelAtEnd(T) ==
  /\ BalancedWithin(T, 2)
  /\ ~BalancedWithin(T, 1)
  /\ T[Len(T)] = ")"
  /\ \A k \in FirstIn(T, {"("}, 1)..(Len(T) - 1) : Depth(T, k) >= 1

\* C6 as stated: for a link whose target ends in a two-level nested group,
\* extractURLs emits the target without its final ")" (and not the whole
\* target): the parenthesis repair leaves the unbalanced capture as it is.
C6_TwoLevelOmitsFinalParen ==
  (/\ urlsDone
   /\ HttpLink(content)
   /\ TwoLevelAtEnd(TargetOf(content))) =>
     /\ urls # << >>
     /\ urls[1] = AllButLast(TargetOf(content))
     /\ TargetOf(content) \notin Range(urls)

\* a GitHub blob URL that carries a line fragment
GithubBlobWithLines(T) ==
  Includes(T, GithubCom) /\ Includes(T, SlashBlobSlash) /\ Includes(T, <<"#", "L">>)

\* C6 as amended: the same, unless the target is a GitHub blob URL with a
\* line fragment (#L...), which the GitHub rule of the repair rewrites.
C6_TwoLevelOmitsFinalParenUnlessGithubLines ==
  (/\ urlsDone
   /\ HttpLink(content)
   /\ TwoLevelAtEnd(TargetOf(content))
   /\ ~GithubBlobWithLines(TargetOf(content))) =>
     /\ urls # << >>
     /\ urls[1] = AllButLast(TargetOf(content))
     /\ TargetOf(content) \notin Range(urls)

\* C6 witness: extractURLs has run on a Wikipedia link whose target ends in
\* a two-level group and has returned the target without its final ")"
C6_Witness ==
  /\ urlsDone
  /\ HttpLink(content)
  /\ TwoLevelAtEnd(TargetOf(content))
  /\ Includes(TargetOf(content), WikipediaOrg)
  /\ urls = <<AllButLast(TargetOf(content))>>
  /\ Count(urls[1], "(") = Count(urls[1], ")") + 1

\* the pushes of url u
PushesOf(u) == {k \in 1..Len(pushed) : pushed[k].url = u}

\* position in the text of the first match that yields u
FirstPosition(u) ==
  CHOOSE q \in {pushed[k].pos : k \in PushesOf(u)} :
    \A k \in PushesOf(u) : q <= pushed[k].pos

\* key <<shape, position>> of a push; the markdown links are shape 1, the
\* autolinks shape 2, the bare URLs shape 3
KeyLess(a, b) == a.shape < b.shape \/ (a.shape = b.shape /\ a.pos < b.pos)

\* the push of u with the least key
FirstByShape(u) ==
  pushed[CHOOSE k \in PushesOf(u) :
           \A j \in PushesOf(u) : j = k \/ KeyLess(pushed[k], pushed[j])]

\* C7 as stated: the result of extractURLs is ordered by the position of
\* each match's first character in the text, whatever the link shape.
C7_OrderedByPosition ==
  urlsDone =>
    \A i, j \in 1..Len(urls) :
      i < j => FirstPosition(urls[i]) < FirstPosition(urls[j])

\* C7 as amended: the result is ordered by link shape first (markdown links,
\* then autolinks, then bare URLs) and by position within one shape.
C7_OrderedByShapeThenPosition ==
  urlsDone =>
    \A i, j \in 1..Len(urls) :
      i < j => KeyLess(FirstByShape(urls[i]), FirstByShape(urls[j]))

\* C7 witness: extractURLs has returned a URL whose match stands later in
\* the text before a URL whose match stands earlier
C7_Witness ==
  /\ urlsDone
  /\ \E i, j \in 1..Len(urls) :
       /\ i < j
       /\ FirstPosition(urls[i]) > FirstPosition(urls[j])
       /\ FirstByShape(urls[i]).shape < FirstByShape(urls[j]).shape

\* index of the first push of u
FirstPush(u) == CHOOSE k \in PushesOf(u) : \A j \in PushesOf(u) : k <= j

\* C8: the result of extractURLs holds no string twice, holds every pushed
\* URL, and keeps the URLs in the order of their first push.
C8_NoDuplicatesFirstOccurrence ==
  urlsDone =>
    /\ \A i, j \in 1..Len(urls) : i # j => urls[i] # urls[j]
    /\ Range(urls) = Range(UrlsOf(pushed))
    /\ \A i, j \in 1..Len(urls) : i < j => FirstPush(urls[i]) < FirstPush(urls[j])

\* C8 witness: a URL was pushed twice, another URL between the two pushes,
\* and extractURLs has returned
C8_Witness ==
  /\ urlsDone
  /\ Len(urls) >= 2
  /\ \E a, b, c \in 1..Len(pushed) :
       a < b /\ b < c /\ pushed[a].url = pushed[c].url /\ pushed[b].url # pushed[a].url

\* C9: no match of the bare-URL pass that yields a URL lies inside or across
\* the span of a markdown link or of an autolink (so that no emitted URL
\* holds link syntax of an enclosing link).
C9_ShapesNeverOverlap ==
  urlsDone =>
    LET c == contentWithoutCodeBlocks(content)
        linkSpans == markdownLinkRegex(c, 1) \o angleBracketLinkRegex(c, 1)
        bare == rawUrlRegex(c, 1)
    IN  \A r \in 1..Len(bare) : \A m \in 1..Len(linkSpans) :
             \/ Pushed(bare[r]) = << >>
             \/ bare[r].end < linkSpans[m].pos
             \/ bare[r].pos > linkSpans[m].end

\* C10: extracting again from the extracted URLs, written out as plain
\* text with a space between them, returns the same URLs.
C10_ReextractionIdempotent ==
  urlsDone => extractURLs(JoinWith(urls, <<" ">>)) = urls

\* text is one bare URL run: it starts with a scheme and a domain and holds
\* no whitespace, no quote and no link syntax
BareRun(text) ==
  /\ isValidUrl(text)
  /\ \A k \in 1..Len(text) :
       text[k] \notin Whitespace \cup {"\"", "'", "[", "]", "<", ">", Backtick}

\* C11: a bare URL is captured as the whole run of characters that are no
\* whitespace and no quote, parentheses inside the run included; only the
\* characters . , ; : ! ? ) at the end of the run are removed (the repair of
\* parentheses then applies as to every captured URL).
C11_BareRunWhole ==
  (urlsDone /\ BareRun(content)) =>
    urls = <<Fixed(StripTrailingPunctuation(content))>>

\* the labels of the dotted domain u[b..e]: each is <<first, last>>
DomainLabels(u, b, e) ==
  { <<x, y>> \in (b..e) \X (b..e) :
      /\ x <= y
      /\ x = b \/ u[x - 1] = "."
      /\ y = e \/ u[y + 1] = "."
      /\ \A k \in x..y : u[k] # "." }

\* u begins with http:// or https:// and a dotted domain: labels of letters,
\* digits and "-" of at most MaxLabelLen characters that neither begin nor end
\* with "-", the last one at least two letters
UrlShape(u) ==
  LET b == SchemeLen(u, 1) + 1
  IN  /\ SchemeLen(u, 1) > 0
      /\ \E e \in b..Len(u) :
           /\ \E k \in b..e : u[k] = "."
           /\ u[b] # "." /\ u[e] # "."
           /\ \A k \in b..(e - 1) : ~(u[k] = "." /\ u[k + 1] = ".")
           /\ \A l \in DomainLabels(u, b, e) :
                /\ l[2] - l[1] + 1 <= MaxLabelLen
                /\ u[l[1]] \in Alnum /\ u[l[2]] \in Alnum
                /\ \A k \in l[1]..l[2] : u[k] \in Alnum \cup {"-"}
                /\ l[2] = e => (l[2] > l[1] /\ \A k \in l[1]..l[2] : u[k] \in Alpha)

\* the matches of the three link shapes in the text extractURLs scans
MatchesOf(text) ==
  LET c == contentWithoutCodeBlocks(text)
  IN  markdownLinkRegex(c, 1) \o angleBracketLinkRegex(c, 1) \o rawUrlRegex(c, 1)

\* the target a match captured, as it is validated
CapturedTarget(m) ==
  IF m.shape = 3 THEN StripTrailingPunctuation(Trim(m.text)) ELSE Trim(m.text)

\* C16: every string extractURLs emits has the URL shape, and a captured
\* target that lacks the shape is emitted from none of the three link shapes.
C16_EmittedHaveUrlShape ==
  urlsDone =>
    /\ \A k \in 1..Len(urls) : UrlShape(urls[k])
    /\ \A i \in 1..Len(MatchesOf(content)) :
         LET m == MatchesOf(content)[i]
         IN  ~UrlShape(CapturedTarget(m)) =>
               ~\E k \in 1..Len(pushed) :
                   pushed[k].pos = m.pos /\ pushed[k].shape = m.shape

\* C16 witness: extractURLs has returned a URL although the text also holds
\* a match whose target lacks the URL shape, one with a label of more than
\* MaxLabelLen characters among them
C16_Witness ==
  /\ urlsDone
  /\ urls # << >>
  /\ \E i \in 1..Len(MatchesOf(content)) :
       ~UrlShape(CapturedTarget(MatchesOf(content)[i]))

\* the pieces of s between the occurrences of the character c
RECURSIVE SplitAt(_, _)
SplitAt(s, c) ==
  LET k == FirstIn(s, {c}, 1)
  IN  IF k > Len(s) THEN <<s>>
      ELSE <<SubSeq(s, 1, k - 1)>> \o SplitAt(SubSeq(s, k + 1, Len(s)), c)

\* the parentheses of u are not balanced: the counts of "(" and ")" differ
Unbalanced(u) == Count(u, "(") # Count(u, ")")

\* position of the first ")" of u that no earlier "(" matches, 0 if none
FirstUnmatchedClose(u) ==
  LET J == {k \in 1..Len(u) : u[k] = ")" /\ Depth(u, k) < 0}
  IN  IF J = {} THEN 0 ELSE CHOOSE k \in J : \A j \in J : k <= j

\* the segments of u after its scheme: host, then the path segments
UrlSegments(u) == SplitAt(SubSeq(u, SchemeLen(u, 1) + 1, Len(u)), "/")

\* the host of u ends in wikipedia.org and its path begins /wiki/
WikiUrl(u) ==
  /\ SchemeLen(u, 1) > 0
  /\ Len(UrlSegments(u)) >= 3
  /\ EndsWith(UrlSegments(u)[1], WikipediaOrg)
  /\ UrlSegments(u)[2] = <<"w","i","k","i">>

\* C12: on a Wikipedia /wiki/ URL with unbalanced parentheses,
\* fixParenthesesInUrl returns the URL cut before its first unmatched ")"
\* (the whole URL when every ")" is matched).
C12_WikiTruncatedAtUnmatchedClose ==
  (fn = "fixParenthesesInUrl" /\ WikiUrl(arg) /\ Unbalanced(arg)) =>
    ret = IF FirstUnmatchedClose(arg) = 0 THEN arg
          ELSE SubSeq(arg, 1, FirstUnmatchedClose(arg) - 1)

\* u is github.com/<user>/<repo>/blob/<ref>/<path>
GithubBlobUrl(u) ==
  /\ SchemeLen(u, 1) > 0
  /\ Len(UrlSegments(u)) >= 6
  /\ UrlSegments(u)[1] = GithubCom
  /\ UrlSegments(u)[2] # << >>
  /\ UrlSegments(u)[3] # << >>
  /\ UrlSegments(u)[4] = <<"b","l","o","b">>
  /\ UrlSegments(u)[5] # << >>
  /\ UrlSegments(u)[6] # << >>

\* position of the first "#" of u, Len(u) + 1 if none
HashAt(u) == FirstIn(u, {"#"}, 1)

\* s[a..b] is one or more digits
DigitRun(s, a, b) == a <= b /\ b <= Len(s) /\ \A k \in a..b : s[k] \in Digit

\* the ends e of a line-range fragment #L<n> or #L<n>-L<m> that starts at h
LineFragmentEnds(u, h) ==
  { e \in (h + 2)..Len(u) :
      /\ u[h] = "#" /\ u[h + 1] = "L"
      /\ \/ DigitRun(u, h + 2, e)
         \/ \E d \in (h + 2)..(e - 3) :
              /\ DigitRun(u, h + 2, d)
              /\ u[d + 1] = "-" /\ u[d + 2] = "L"
              /\ DigitRun(u, d + 3, e) }

\* C13: on a GitHub blob URL with unbalanced parentheses whose path is
\* followed at once by a line-range fragment, fixParenthesesInUrl returns the
\* URL up through the path with the fragment kept behind it.
C13_GithubKeepsLineFragment ==
  (/\ fn = "fixParenthesesInUrl"
   /\ GithubBlobUrl(arg)
   /\ Unbalanced(arg)
   /\ LineFragmentEnds(arg, HashAt(arg)) # {}) =>
     \E e \in LineFragmentEnds(arg, HashAt(arg)) : StartsWith(ret, SubSeq(arg, 1, e))

\* C14: fixParenthesesInUrl returns its argument on every URL with as many
\* "(" as ")", and on every unbalanced URL that is neither a GitHub blob URL
\* nor a Wikipedia /wiki/ URL.
C14_IdentityElsewhere ==
  (/\ fn = "fixParenthesesInUrl"
   /\ \/ ~Unbalanced(arg)
      \/ ~GithubBlobUrl(arg) /\ ~WikiUrl(arg)) => ret = arg

\* C14 witness: fixParenthesesInUrl was called on an unbalanced URL that
\* names github.com and /blob/ without being a GitHub blob URL, and on
\* return the URL is unchanged
C14_Witness ==
  /\ fn = "fixParenthesesInUrl"
  /\ Unbalanced(arg)
  /\ Includes(arg, GithubCom) /\ Includes(arg, SlashBlobSlash)
  /\ Includes(arg, <<"#", "L", "1">>)
  /\ ~GithubBlobUrl(arg)
  /\ ret = arg

\* number of words of str: the non-empty runs between its spaces
Words(str) ==
  Cardinality({k \in 1..Len(SplitAt(str, " ")) : SplitAt(str, " ")[k] # << >>})

\* number of pieces of str when it is cut at every space, empty pieces included
SpacePieces(str) == Len(SplitAt(str, " "))

HasAny(str, cs) == \E k \in 1..Len(str) : str[k] \in cs

\* rule k of the ordered list matches str; parts is the count rule 6 uses
RuleMatches(k, str, parts) ==
  CASE k = 1 -> /\ Len(str) >= 2 /\ str[1] = "." /\ str[2] = "/"
                /\ ~HasAny(SubSeq(str, 3, Len(str)), {"/", "."})
    [] k = 2 -> \E ext \in commonFileExtensions : EndsWith(str, ext)
    [] k = 3 -> HasAny(str, {"/", "\\"}) /\ Count(str, " ") <= 1
    [] k = 4 -> HasAny(str, {" "}) /\ HasAny(str, {",", ":", "{", "}", Backtick})
    [] k = 5 -> \/ str \in CodeSymbols
                \/ str # << >> /\ ~HasAny(str, {c \in Range(str) : c \notin Digit})
    [] k = 6 -> parts > 3
    [] k = 7 -> TRUE

\* the first rule that matches
FirstRule(str, parts) ==
  CHOOSE k \in 1..7 :
    RuleMatches(k, str, parts) /\ \A j \in 1..(k - 1) : ~RuleMatches(j, str, parts)

\* rules 2, 3 and 7 accept, rules 1, 4, 5 and 6 reject
RuleVerdict(k) == k \in {2, 3, 7}

\* C15 as stated: isLikelyAFilePath returns the verdict of the first matching
\* rule of the ordered list, rule 6 being "more than 3 space-separated words".
C15_FirstRuleDecidesByWords ==
  fn = "isLikelyAFilePath" => verdict = RuleVerdict(FirstRule(arg, Words(arg)))

\* C15 as amended: the same, rule 6 being "more than 3 pieces when the string
\* is cut at every space", that is, three or more spaces.
C15_FirstRuleDecidesBySpaces ==
  fn = "isLikelyAFilePath" => verdict = RuleVerdict(FirstRule(arg, SpacePieces(arg)))

\* C15 witness: isLikelyAFilePath has returned on a string that an accepting
\* and a rejecting rule both match, with the verdict of the earlier one
C15_Witness ==
  /\ fn = "isLikelyAFilePath"
  /\ \E j, k \in 1..6 :
       /\ j < k
       /\ RuleMatches(j, arg, SpacePieces(arg))
       /\ RuleMatches(k, arg, SpacePieces(arg))
       /\ \A i \in 1..(j - 1) : ~RuleMatches(i, arg, SpacePieces(arg))
       /\ RuleVerdict(j) # RuleVerdict(k)
       /\ verdict = RuleVerdict(j)

\* what a first call of the function on the text returns: the call in a
\* session that has made no call yet
FirstCall(rev, function, text) ==
  IF function = "extractURLs"
  THEN IF rev = "earlier" THEN EarlierExtractURLs(text, 0).out ELSE extractURLs(text)
  ELSE IF rev = "earlier" THEN EarlierExtractRelativeLinks(text, 0).out
       ELSE extractRelativeLinks(text)

\* C17: whatever calls came before, a call on a text returns what a first
\* call on that text returns, and no scan cursor of a regular expression
\* survives a call, in the current and in the earlier revision.
C17_NoStateBetweenCalls ==
  /\ called # "none" => result = FirstCall(revision, called, callText)
  /\ URL_REGEX_lastIndex = 0
  /\ RELATIVE_LINK_REGEX_lastIndex = 0

\* C17 witness: in the earlier revision, a call that found links has come
\* after a call on a longer text whose last link ends beyond the end of the
\* text of this call
C17_Witness ==
  /\ revision = "earlier"
  /\ calls >= 2
  /\ result # << >>
  /\ Len(prevText) > Len(callText)
  /\ FirstCall(revision, called, prevText) # << >>

\* the check of URL k failed: checkURL threw, or its response was not ok, or
\* it was flagged as a GitHub page that shows not found
CheckFailed(k) ==
  /\ outcome[k].called
  /\ \/ outcome[k].threw
     \/ ~outcome[k].ok
     \/ outcome[k].brokenGitHubLink

\* C18: processUrlsInBatches resolves with one result per input URL, in input
\* order, each ok or broken, a URL being broken exactly when its own check
\* failed, whatever the checks of the other URLs did.
C18_OneResultPerUrl ==
  checkPc = "returned" =>
    /\ Len(checkResults) = Len(urlList)
    /\ \A k \in 1..Len(urlList) :
         /\ checkResults[k].link = urlList[k]
         /\ checkResults[k].status \in {"ok", "broken"}
         /\ checkResults[k].status = "broken" <=> CheckFailed(k)

\* C18 witness: the call has returned after two batches; in the first one a
\* check threw, one was flagged as not found, and a later one succeeded
C18_Witness ==
  /\ checkPc = "returned"
  /\ Len(urlList) > LINK_BATCH_SIZE
  /\ \E a, b, c \in 1..LINK_BATCH_SIZE :
       /\ a < c /\ b < c
       /\ outcome[a].threw
       /\ outcome[b].ok /\ outcome[b].brokenGitHubLink
       /\ checkResults[c].status = "ok" /\ outcome[c].called

\* the first batch of URL checks of a file was started in this step although
\* the file's earlier batch had checks that had not settled
UrlBatchStartedEarly ==
  \E r \in BagToSet(inFlight') :
    /\ r.stage = "checking"
    /\ r.from > 0
    /\ r.pending = Min(r.urls - r.from, LINK_BATCH_SIZE)
    /\ CopiesIn(r, inFlight') > CopiesIn(r, inFlight)
    /\ ~\E q \in BagToSet(inFlight) :
          /\ q.stage = "checking"
          /\ q.urls = r.urls
          /\ q.from = r.from - LINK_BATCH_SIZE
          /\ q.pending = 1
          /\ CopiesIn(q, inFlight') < CopiesIn(q, inFlight)

\* C19: at every moment at most CONCURRENCY_LIMIT files are being processed
\* and at most LINK_BATCH_SIZE URL checks are in flight for one file; a batch
\* of files or of URLs starts only when every member of the batch before it
\* has completed; printResults runs only when every file was processed once.
C19_FanOutBounded ==
  /\ [](/\ BagCardinality(inFlight) <= CONCURRENCY_LIMIT
        /\ \A r \in BagToSet(inFlight) : r.pending <= LINK_BATCH_SIZE
        /\ mainPc = "printed" =>
             /\ inFlight = EmptyBag
             /\ \A f \in 1..markdownFiles : started[f] = 1)
  /\ [][/\ started' # started => inFlight = EmptyBag
        /\ ~UrlBatchStartedEarly]_vars

\* C19 witness: the second batch of files is being processed, CONCURRENCY_LIMIT
\* files were in the first one, and a file of the second batch is in its
\* second batch of URL checks
C19_Witness ==
  /\ mainPc = "await"
  /\ markdownFiles > CONCURRENCY_LIMIT
  /\ allFiles = << >>
  /\ \A f \in 1..CONCURRENCY_LIMIT : started[f] = 1
  /\ \E r \in BagToSet(inFlight) : r.stage = "checking" /\ r.from = LINK_BATCH_SIZE

====
